---- MODULE Spec2Model ----
(***************************************************************************)
(* Model of the relay node of src/main.go (the second, complete draft of   *)
(* the file: loadOrMakePrivateKey and main, lines 99-223).                 *)
(*                                                                         *)
(* Text is modelled as a sequence of tokens: the token "/" is the path     *)
(* separator and every other token is a run of characters without "/", so  *)
(* that fmt.Sprintf is concatenation and multiaddr parsing really splits   *)
(* the text it is given.  Byte blobs (serialized keys, base64 text) are    *)
(* tagged token sequences, so decoding and deserialization can fail.       *)
(***************************************************************************)
EXTENDS Integers, Sequences, FiniteSets, TLC

\* ---------------------------------------------------------------- bounds
MaxRuns == 2        \* process runs (start .. exit) explored one after another
MaxInflight == 2    \* status requests accepted and not yet answered

\* ------------------------------------------------------------ text, bytes
Empty == <<>>
NoKey == "nil"
NoErr == "nil"

\* crypto.MarshalPrivateKey: the serialized form of key k
MarshalPrivateKey(k) == <<"privkey", k>>

\* crypto.UnmarshalPrivateKey: [ok, key]
UnmarshalPrivateKey(data) ==
    IF Len(data) = 2 /\ data[1] = "privkey"
    THEN [ok |-> TRUE, key |-> data[2]]
    ELSE [ok |-> FALSE, key |-> NoKey]

\* base64.StdEncoding.EncodeToString
EncodeToString(bytes) == <<"b64">> \o bytes

\* base64.StdEncoding.DecodeString: [ok, data]
DecodeString(s) ==
    IF Len(s) >= 1 /\ s[1] = "b64"
    THEN [ok |-> TRUE, data |-> Tail(s)]
    ELSE [ok |-> FALSE, data |-> Empty]

\* peer.IDFromPrivateKey, as libp2p.Identity(priv) fixes h.ID()
IDFromKey(k) == "12D3KooW" \o k

\* ------------------------------------------------------------ input space
InjectedKeys == {"K1", "K2"}
FileKeys == {"K2", "K3"}
FreshKeys == {"G1", "G2"}
Junk == <<"junk">>

\* values of RELAY_PRIVATE_KEY_B64
B64Values ==
    {Empty, <<"!not-base64!">>, EncodeToString(Junk)}
        \cup {EncodeToString(MarshalPrivateKey(k)) : k \in InjectedKeys}

\* contents of the private_key file; exists = FALSE is "no such file"
NoFile == [exists |-> FALSE, data |-> Empty]
FileValues ==
    {NoFile, [exists |-> TRUE, data |-> Junk]}
        \cup {[exists |-> TRUE, data |-> MarshalPrivateKey(k)] : k \in FileKeys}

\* values of RENDER_EXTERNAL_HOSTNAME
HostValues ==
    {Empty, <<"relay.example.com">>, <<"bad", "/", "host">>, <<"x.onrender.com", "/">>}

\* values of PORT
PortValues == {Empty, <<"10001">>, <<"8080">>, <<"http">>}

Envs == [b64 : B64Values, host : HostValues, port : PortValues]

\* ------------------------------------------------------------- multiaddr
RECURSIVE SplitFrom(_, _, _)
\* strings.Split(text, "/"): the segments between the separators
SplitFrom(text, i, cur) ==
    IF i > Len(text) THEN <<cur>>
    ELSE IF text[i] = "/" THEN <<cur>> \o SplitFrom(text, i + 1, "")
    ELSE SplitFrom(text, i + 1, cur \o text[i])

Split(text) == SplitFrom(text, 1, "")

RECURSIVE TrimRight(_)
\* strings.TrimRight(text, "/")
TrimRight(text) ==
    IF Len(text) > 0 /\ text[Len(text)] = "/"
    THEN TrimRight(SubSeq(text, 1, Len(text) - 1))
    ELSE text

\* the protocol table: names that take a value, names that take none
ValueProtocols == {"ip4", "dns4", "tcp", "p2p"}
FlagProtocols == {"ws", "wss"}

\* the decimal texts strconv accepts as a 16-bit port, among the texts in use
PortTexts == {"443", "4000", "8080", "10001"}
IPTexts == {"0.0.0.0", "127.0.0.1", "10.0.0.5"}

\* the protocol's transcoder accepts the value
ValidValue(proto, v) ==
    CASE proto = "tcp" -> v \in PortTexts
      [] proto = "ip4" -> v \in IPTexts
      [] OTHER -> v # ""

RECURSIVE ParseSegments(_)
\* the protocol/value loop of multiaddr string parsing: [ok, comps]
ParseSegments(segs) ==
    IF Len(segs) = 0 THEN [ok |-> TRUE, comps |-> <<>>]
    ELSE IF segs[1] \in FlagProtocols THEN
        LET rest == ParseSegments(Tail(segs))
        IN  [ok |-> rest.ok,
             comps |-> <<[proto |-> segs[1], value |-> ""]>> \o rest.comps]
    ELSE IF segs[1] \in ValueProtocols /\ Len(segs) >= 2
                /\ ValidValue(segs[1], segs[2]) THEN
        LET rest == ParseSegments(SubSeq(segs, 3, Len(segs)))
        IN  [ok |-> rest.ok,
             comps |-> <<[proto |-> segs[1], value |-> segs[2]]>> \o rest.comps]
    ELSE [ok |-> FALSE, comps |-> <<>>]

\* ma.NewMultiaddr(text): [ok, comps]; comps is the parsed address
NewMultiaddr(text) ==
    LET segs == Split(TrimRight(text))
    IN  IF Len(segs) < 2 \/ segs[1] # ""
        THEN [ok |-> FALSE, comps |-> <<>>]
        ELSE LET r == ParseSegments(Tail(segs))
             IN  IF r.ok THEN r ELSE [ok |-> FALSE, comps |-> <<>>]

\* ------------------------------------------------------------ the program
VARIABLES
    env,            \* the environment of this run: b64, host, port
    file,           \* the private_key file
    run,            \* number of this process run
    seen,           \* the NodeID an earlier run reported on /peerid, if any
    pc,             \* position of main
    exitCode,       \* how the process ended
    port,           \* main's port
    publicMaddrStr, \* main's publicMaddrStr
    priv, err,      \* what loadOrMakePrivateKey returned
    keySource,      \* which branch of loadOrMakePrivateKey returned
    h,              \* the libp2p host
    relayActive,    \* relay.New(h) succeeded
    status,         \* the status goroutine: none, starting, serving, failed
    inflight,       \* accepted status requests not yet answered, per path
    responses,      \* the status responses written in this run
    refusedAfterHost, \* a GET / found no listener after the host was built
    hook,           \* the last call of addrFactory: its argument and result
    acceptedBeforeRelay \* a peer connection was accepted before relay.New

vars == <<env, file, run, seen, pc, exitCode, port, publicMaddrStr, priv, err,
          keySource, h, relayActive, status, inflight, responses,
          refusedAfterHost, hook, acceptedBeforeRelay>>

privKeyFileName == "private_key"
statusPort == <<"8080">>
Paths == {"/", "/peerid", "/multiaddr"}

NoHost == [constructed |-> FALSE, closed |-> FALSE, id |-> ""]
NoHook == [called |-> FALSE, natural |-> <<>>, result |-> <<>>]
NoSeen == <<>>

\* the generation path of loadOrMakePrivateKey, lines 123-132
Generate(f) ==
    {[priv |-> NoKey, err |-> "generate key failed", file |-> f,
      source |-> "generated"]}
    \cup {[priv |-> k, err |-> NoErr, file |-> f, source |-> "generated"] :
            k \in FreshKeys}
    \cup {[priv |-> k, err |-> NoErr,
           file |-> [exists |-> TRUE, data |-> MarshalPrivateKey(k)],
           source |-> "generated"] : k \in FreshKeys}

\* the key file branch of loadOrMakePrivateKey, lines 116-121, then generation
FileOrGenerate(f) ==
    IF f.exists /\ UnmarshalPrivateKey(f.data).ok
    THEN {[priv |-> UnmarshalPrivateKey(f.data).key, err |-> NoErr, file |-> f,
           source |-> "file"]}
    ELSE Generate(f)

\* faulty variant: a malformed injected key is treated as absent
loadOrMakePrivateKey_FallsBack(b64, f) ==
    LET un == UnmarshalPrivateKey(DecodeString(b64).data)
    IN  IF b64 # Empty /\ DecodeString(b64).ok /\ un.ok
        THEN {[priv |-> un.key, err |-> NoErr, file |-> f, source |-> "env"]}
        ELSE FileOrGenerate(f)

\* faulty variant: a key file that does not deserialize is a fatal error
loadOrMakePrivateKey_CorruptFatal(b64, f) ==
    LET un == UnmarshalPrivateKey(DecodeString(b64).data)
    IN  IF b64 # Empty THEN
            IF DecodeString(b64).ok /\ un.ok
            THEN {[priv |-> un.key, err |-> NoErr, file |-> f, source |-> "env"]}
            ELSE {[priv |-> NoKey, err |-> "decode key failed", file |-> f,
                   source |-> "env"]}
        ELSE IF f.exists /\ ~UnmarshalPrivateKey(f.data).ok
        THEN {[priv |-> NoKey, err |-> "unmarshal key failed", file |-> f,
               source |-> "file"]}
        ELSE FileOrGenerate(f)

\* faulty variant: the key file is tried before the injected key
loadOrMakePrivateKey_FileFirst(b64, f) ==
    LET un == UnmarshalPrivateKey(DecodeString(b64).data)
    IN  IF f.exists /\ UnmarshalPrivateKey(f.data).ok THEN FileOrGenerate(f)
        ELSE IF b64 # Empty THEN
            IF DecodeString(b64).ok /\ un.ok
            THEN {[priv |-> un.key, err |-> NoErr, file |-> f, source |-> "env"]}
            ELSE {[priv |-> NoKey, err |-> "decode key failed", file |-> f,
                   source |-> "env"]}
        ELSE Generate(f)

\* loadOrMakePrivateKey: the set of its possible results, given the value of
\* RELAY_PRIVATE_KEY_B64 and the key file.  More than one result only on the
\* generation path: the key drawn, rand.Reader failing, WriteFile failing.
loadOrMakePrivateKey(b64, f) ==
    IF b64 # Empty THEN
        LET dec == DecodeString(b64)
            un == UnmarshalPrivateKey(dec.data)
        IN  IF ~dec.ok THEN
                {[priv |-> NoKey, err |-> "decode key failed", file |-> f,
                  source |-> "env"]}
            ELSE IF ~un.ok THEN
                {[priv |-> NoKey, err |-> "unmarshal key failed", file |-> f,
                  source |-> "env"]}
            ELSE {[priv |-> un.key, err |-> NoErr, file |-> f, source |-> "env"]}
    ELSE FileOrGenerate(f)

\* port := os.Getenv("PORT"), "4000" when unset
PortOf(e) == IF e.port = Empty THEN <<"4000">> ELSE e.port

\* faulty variant: the advertised port is the internal listen port
PublicMaddrStrOf_ListenPort(renderHost) ==
    IF renderHost # Empty
    THEN <<"/", "dns4", "/">> \o renderHost \o <<"/", "tcp", "/">> \o PortOf(env)
            \o <<"/", "wss">>
    ELSE Empty

\* publicMaddrStr: "" or fmt.Sprintf("/dns4/%s/tcp/443/wss", renderHost)
PublicMaddrStrOf(renderHost) ==
    IF renderHost # Empty
    THEN <<"/", "dns4", "/">> \o renderHost \o <<"/", "tcp", "/", "443", "/", "wss">>
    ELSE Empty

\* listen := fmt.Sprintf("/ip4/0.0.0.0/tcp/%s/ws", port)
ListenOf(p) == <<"/", "ip4", "/", "0.0.0.0", "/", "tcp", "/">> \o p \o <<"/", "ws">>

\* faulty variant: the public address is added to the natural ones
addrFactory_Appends(pub, addrs) ==
    IF pub = Empty THEN addrs
    ELSE LET m == NewMultiaddr(pub)
         IN  IF ~m.ok THEN addrs ELSE addrs \o <<m.comps>>

\* addrFactory, the closure over publicMaddrStr
addrFactory(pub, addrs) ==
    IF pub = Empty THEN addrs
    ELSE LET m == NewMultiaddr(pub)
         IN  IF ~m.ok THEN addrs ELSE <<m.comps>>

NoInflight == [p \in Paths |-> 0]
InflightTotal == inflight["/"] + inflight["/peerid"] + inflight["/multiaddr"]

\* faulty variant: a handler whose answer depends on the other requests in progress
Handle_Racy(path, pub, id) ==
    CASE path = "/" -> [path |-> path, code |-> 200, body |-> <<"ok">>]
      [] path = "/peerid" ->
            [path |-> path, code |-> 200,
             body |-> IF InflightTotal > 1 THEN <<>> ELSE <<id>>]
      [] path = "/multiaddr" ->
            [path |-> path, code |-> 200,
             body |-> IF pub = Empty THEN <<"no-public-hostname-set">>
                      ELSE pub \o <<"/", "p2p", "/", id>>]

\* the three handlers of the status mux
Handle(path, pub, id) ==
    CASE path = "/" -> [path |-> path, code |-> 200, body |-> <<"ok">>]
      [] path = "/peerid" -> [path |-> path, code |-> 200, body |-> <<id>>]
      [] path = "/multiaddr" ->
            [path |-> path, code |-> 200,
             body |-> IF pub = Empty THEN <<"no-public-hostname-set">>
                      ELSE pub \o <<"/", "p2p", "/", id>>]

\* ctx := context.Background(): its Done channel is never closed
ctxDone == FALSE

\* the addresses the host finds on its interfaces, for a listen port p
NaturalAddr(ip, p) ==
    <<[proto |-> "ip4", value |-> ip], [proto |-> "tcp", value |-> p[1]],
      [proto |-> "ws", value |-> ""]>>
NaturalLists(p) ==
    {<<NaturalAddr("127.0.0.1", p)>>,
     <<NaturalAddr("10.0.0.5", p), NaturalAddr("127.0.0.1", p)>>}


Running == pc # "exited"

\* the state of a process that has just been started
Fresh ==
    /\ pc = "start"
    /\ exitCode = "none"
    /\ port = Empty
    /\ publicMaddrStr = Empty
    /\ priv = NoKey
    /\ err = NoErr
    /\ keySource = "none"
    /\ h = NoHost
    /\ relayActive = FALSE
    /\ status = "none"
    /\ inflight = NoInflight
    /\ responses = {}
    /\ refusedAfterHost = FALSE
    /\ hook = NoHook
    /\ acceptedBeforeRelay = FALSE

Init ==
    /\ env \in Envs
    /\ file \in FileValues
    /\ run = 1
    /\ seen = NoSeen
    /\ Fresh

\* the process ends: os.Exit or return from main; nothing is served afterwards
Exit(code) ==
    /\ pc' = "exited"
    /\ exitCode' = code
    /\ inflight' = NoInflight

\* main, lines 138-151: port, renderHost, publicMaddrStr
ReadEnv ==
    /\ pc = "start"
    /\ port' = PortOf(env)
    /\ publicMaddrStr' = PublicMaddrStrOf(env.host)
    /\ pc' = "loadkey"
    /\ UNCHANGED <<env, file, run, seen, exitCode, priv, err, keySource, h,
                   relayActive, status, inflight, responses, refusedAfterHost,
                   hook, acceptedBeforeRelay>>

\* main, lines 153-156: priv, err := loadOrMakePrivateKey(); fatal on error
LoadKey ==
    /\ pc = "loadkey"
    /\ \E r \in loadOrMakePrivateKey(env.b64, file) :
        /\ priv' = r.priv
        /\ err' = r.err
        /\ keySource' = r.source
        /\ file' = r.file
        /\ IF r.err # NoErr
           THEN Exit("1")
           ELSE pc' = "newhost" /\ UNCHANGED <<exitCode, inflight>>
    /\ UNCHANGED <<env, run, seen, port, publicMaddrStr, h, relayActive, status,
                   responses, refusedAfterHost, hook, acceptedBeforeRelay>>

\* main, lines 158-180: libp2p.New; the host listens from here on
NewHost ==
    /\ pc = "newhost"
    /\ \E bindOk \in BOOLEAN :
        IF NewMultiaddr(ListenOf(port)).ok /\ bindOk
        THEN /\ h' = [constructed |-> TRUE, closed |-> FALSE, id |-> IDFromKey(priv)]
             /\ pc' = "relay"
             /\ UNCHANGED <<exitCode, inflight>>
        ELSE /\ Exit("1")
             /\ UNCHANGED h
    /\ UNCHANGED <<env, file, run, seen, port, publicMaddrStr, priv, err,
                   keySource, relayActive, status, responses, refusedAfterHost,
                   hook, acceptedBeforeRelay>>

\* main, lines 182-185: relay.New(h); fatal on error, the host is not closed
RelayNew ==
    /\ pc = "relay"
    /\ \E ok \in BOOLEAN :
        IF ok
        THEN /\ relayActive' = TRUE
             /\ pc' = "spawn"
             /\ UNCHANGED <<exitCode, inflight>>
        ELSE /\ Exit("1")
             /\ UNCHANGED relayActive
    /\ UNCHANGED <<env, file, run, seen, port, publicMaddrStr, priv, err,
                   keySource, h, status, responses, refusedAfterHost, hook,
                   acceptedBeforeRelay>>

\* main, lines 193-215: go func() { ... }()
SpawnStatus ==
    /\ pc = "spawn"
    /\ status' = "starting"
    /\ pc' = "select"
    /\ UNCHANGED <<env, file, run, seen, exitCode, port, publicMaddrStr, priv,
                   err, keySource, h, relayActive, inflight, responses,
                   refusedAfterHost, hook, acceptedBeforeRelay>>

\* faulty variant: a status server that cannot listen ends the process (log.Fatalf)
StatusListen_Fatal ==
    /\ pc # "exited"
    /\ status = "starting"
    /\ \E free \in BOOLEAN :
        IF port # statusPort /\ free
        THEN status' = "serving" /\ UNCHANGED <<pc, exitCode, inflight>>
        ELSE /\ status' = "failed"
             /\ pc' = "exited"
             /\ exitCode' = "1"
             /\ UNCHANGED inflight
    /\ UNCHANGED <<env, file, run, seen, port, publicMaddrStr,
                   priv, err, keySource, h, relayActive, responses,
                   refusedAfterHost, hook, acceptedBeforeRelay>>

\* the goroutine, lines 211-214: http.ListenAndServe(":8080", mux).  The bind
\* fails when the host already listens on 8080, and may fail otherwise.
StatusListen ==
    /\ Running
    /\ status = "starting"
    /\ \E free \in BOOLEAN :
        status' = IF port # statusPort /\ free THEN "serving" ELSE "failed"
    /\ UNCHANGED <<env, file, run, seen, pc, exitCode, port, publicMaddrStr,
                   priv, err, keySource, h, relayActive, inflight, responses,
                   refusedAfterHost, hook, acceptedBeforeRelay>>

\* main, lines 218-222: the select; only the timer can fire, and then main
\* returns without closing the host
Select ==
    /\ pc = "select"
    /\ IF ctxDone
       THEN h' = [h EXCEPT !.closed = TRUE] /\ Exit("0")
       ELSE UNCHANGED h /\ Exit("0")
    /\ UNCHANGED <<env, file, run, seen, port, publicMaddrStr, priv, err,
                   keySource, relayActive, status, responses, refusedAfterHost,
                   hook, acceptedBeforeRelay>>

\* a termination signal: main installs no handler (no signal.Notify), so the
\* runtime ends the process at once
Signal ==
    /\ Running
    /\ Exit("signal")
    /\ UNCHANGED <<env, file, run, seen, port, publicMaddrStr, priv, err,
                   keySource, h, relayActive, status, responses,
                   refusedAfterHost, hook, acceptedBeforeRelay>>

\* a client sends GET path to :8080
Request(path) ==
    /\ Running
    /\ IF status = "serving"
       THEN /\ InflightTotal < MaxInflight
            /\ inflight' = [inflight EXCEPT ![path] = @ + 1]
            /\ UNCHANGED refusedAfterHost
       ELSE /\ refusedAfterHost' = (refusedAfterHost \/ (path = "/" /\ h.constructed))
            /\ UNCHANGED inflight
    /\ UNCHANGED <<env, file, run, seen, pc, exitCode, port, publicMaddrStr,
                   priv, err, keySource, h, relayActive, status, responses, hook,
                   acceptedBeforeRelay>>

\* the mux runs the handler of an accepted request, lines 196-209
Respond(path) ==
    /\ Running
    /\ status = "serving"
    /\ inflight[path] > 0
    /\ inflight' = [inflight EXCEPT ![path] = @ - 1]
    /\ responses' = responses \cup {Handle(path, publicMaddrStr, h.id)}
    /\ UNCHANGED <<env, file, run, seen, pc, exitCode, port, publicMaddrStr,
                   priv, err, keySource, h, relayActive, status,
                   refusedAfterHost, hook, acceptedBeforeRelay>>

\* the host asks addrFactory for the addresses to advertise, lines 161-170
Addrs(natural) ==
    /\ Running
    /\ h.constructed
    /\ hook' = [called |-> TRUE, natural |-> natural,
                result |-> addrFactory(publicMaddrStr, natural)]
    /\ UNCHANGED <<env, file, run, seen, pc, exitCode, port, publicMaddrStr,
                   priv, err, keySource, h, relayActive, status, inflight,
                   responses, refusedAfterHost, acceptedBeforeRelay>>

\* a peer connects to the listen address of the host
PeerConnect ==
    /\ Running
    /\ h.constructed
    /\ acceptedBeforeRelay' = (acceptedBeforeRelay \/ ~relayActive)
    /\ UNCHANGED <<env, file, run, seen, pc, exitCode, port, publicMaddrStr,
                   priv, err, keySource, h, relayActive, status, inflight,
                   responses, refusedAfterHost, hook>>

\* the injected key of this run, when it decodes and deserializes
InjectedKey(e) == UnmarshalPrivateKey(DecodeString(e.b64).data)

\* the operator starts the node again with the same injected key after a run
\* that reported its NodeID; hostname, port and key file may all differ
Restart ==
    /\ pc = "exited"
    /\ run < MaxRuns
    /\ InjectedKey(env).ok
    /\ \E r \in responses : r.path = "/peerid" /\ seen' = r.body
    /\ run' = run + 1
    /\ \E e \in Envs : e.b64 = env.b64 /\ env' = e
    /\ file' \in FileValues \cup {file}
    /\ pc' = "start"
    /\ exitCode' = "none"
    /\ port' = Empty
    /\ publicMaddrStr' = Empty
    /\ priv' = NoKey
    /\ err' = NoErr
    /\ keySource' = "none"
    /\ h' = NoHost
    /\ relayActive' = FALSE
    /\ status' = "none"
    /\ inflight' = NoInflight
    /\ responses' = {}
    /\ refusedAfterHost' = FALSE
    /\ hook' = NoHook
    /\ acceptedBeforeRelay' = FALSE

Next ==
    \/ ReadEnv
    \/ LoadKey
    \/ NewHost
    \/ RelayNew
    \/ SpawnStatus
    \/ StatusListen
    \/ Select
    \/ Signal
    \/ \E path \in Paths : Request(path)
    \/ \E path \in Paths : Respond(path)
    \/ \E natural \in NaturalLists(PortOf(env)) : Addrs(natural)
    \/ PeerConnect
    \/ Restart

Spec == Init /\ [][Next]_vars

\* ------------------------------------------------------------- the claims
FileKeyOk(f) == f.exists /\ UnmarshalPrivateKey(f.data).ok
MalformedInjected(e) == e.b64 # Empty /\ ~InjectedKey(e).ok
KeyLoaded == keySource # "none"
PeerIdResponses == {r \in responses : r.path = "/peerid"}
MultiaddrResponses == {r \in responses : r.path = "/multiaddr"}
LivenessResponses == {r \in responses : r.path = "/"}

\* C1: a non-empty RELAY_PRIVATE_KEY_B64 that fails base64 decoding or key
\* deserialization makes loadOrMakePrivateKey return an error and main end
\* the process with status 1: the key file and generation are never tried,
\* no host is constructed and no NodeID is produced, whatever the key file.
C1_MalformedInjectedKeyIsFatal ==
    (MalformedInjected(env) /\ KeyLoaded) =>
        /\ pc = "exited" /\ exitCode = "1"
        /\ err # NoErr /\ priv = NoKey /\ keySource = "env"
        /\ ~h.constructed /\ h.id = ""
        /\ responses = {}

C1_Witness ==
    /\ MalformedInjected(env) /\ DecodeString(env.b64).ok /\ KeyLoaded
    /\ FileKeyOk(file)
    /\ pc = "exited"

\* C2: in the step that calls loadOrMakePrivateKey the source is chosen in
\* priority order (valid injected key, else a key file that deserializes,
\* else a generated key), a corrupt key file is not an error but leads to
\* generation, and the result is a key with no error or an error with no key.
C2_SourcePriority ==
    [][(pc = "loadkey" /\ keySource' # "none") =>
        /\ (priv' = NoKey) <=> (err' # NoErr)
        /\ InjectedKey(env).ok =>
              /\ keySource' = "env" /\ priv' = InjectedKey(env).key
              /\ file' = file
        /\ MalformedInjected(env) => (keySource' = "env" /\ err' # NoErr)
        /\ (env.b64 = Empty /\ FileKeyOk(file)) =>
              /\ keySource' = "file"
              /\ priv' = UnmarshalPrivateKey(file.data).key
              /\ file' = file
        /\ (env.b64 = Empty /\ ~FileKeyOk(file)) =>
              /\ keySource' = "generated"
              /\ err' \in {NoErr, "generate key failed"}
              /\ err' = NoErr => priv' \in FreshKeys
              /\ file' \in {file, [exists |-> TRUE,
                                   data |-> MarshalPrivateKey(priv')]}
    ]_vars

C2_Witness ==
    /\ env.b64 = Empty
    /\ keySource = "generated" /\ priv \in FreshKeys /\ err = NoErr
    /\ file = [exists |-> TRUE, data |-> Junk]

\* C3: a run started with the same valid injected key as an earlier run
\* answers /peerid with the NodeID the earlier run reported, whatever its
\* key file, hostname and port are.
C3_SameKeySameNodeID ==
    seen # NoSeen => \A r \in PeerIdResponses : r.body = seen

C3_Witness ==
    /\ seen # NoSeen
    /\ PeerIdResponses # {}
    /\ FileKeyOk(file)
    /\ UnmarshalPrivateKey(file.data).key # InjectedKey(env).key

\* C4: /multiaddr answers "/dns4/H/tcp/443/wss/p2p/<NodeID>" when the hostname
\* H is set, for every listen port, with the NodeID that /peerid answers, and
\* "no-public-hostname-set" when no hostname is set.
C4_MultiaddrResponse ==
    /\ \A m \in MultiaddrResponses :
          /\ m.code = 200
          /\ IF env.host = Empty
             THEN m.body = <<"no-public-hostname-set">>
             ELSE m.body = <<"/", "dns4", "/">> \o env.host
                              \o <<"/", "tcp", "/", "443", "/", "wss", "/", "p2p", "/",
                                   h.id>>
    /\ \A p \in PeerIdResponses : p.body = <<h.id>>

C4_Witness ==
    /\ env.host = <<"relay.example.com">>
    /\ port = <<"10001">>
    /\ MultiaddrResponses # {}
    /\ PeerIdResponses # {}

\* the public address of a run: the hostname is set and the text built from
\* it parses
Resolved == env.host # Empty /\ NewMultiaddr(publicMaddrStr).ok

\* C5: every call of the address hook returns exactly the one public address
\* (none of the natural ones) when a public address was resolved, and its
\* argument unchanged otherwise.
C5_HookResult ==
    hook.called =>
        IF Resolved
        THEN /\ Len(env.host) = 1
             /\ hook.result = << <<[proto |-> "dns4", value |-> env.host[1]],
                                   [proto |-> "tcp", value |-> "443"],
                                   [proto |-> "wss", value |-> ""]>> >>
             /\ \A i \in 1..Len(hook.natural) : hook.natural[i] # hook.result[1]
        ELSE hook.result = hook.natural

C5_Witness ==
    /\ hook.called
    /\ Resolved
    /\ Len(hook.natural) = 2

\* C6: with a hostname whose address text does not parse, the node behaves as
\* with no hostname: the hook returns the natural addresses and /multiaddr
\* answers "no-public-hostname-set".
C6_MalformedHostnameIsAbsent ==
    (env.host # Empty /\ pc # "start" /\ ~NewMultiaddr(publicMaddrStr).ok) =>
        /\ hook.called => hook.result = hook.natural
        /\ \A m \in MultiaddrResponses : m.body = <<"no-public-hostname-set">>

\* C7: no status query is answered and no peer connection is accepted on the
\* listen address before relay-hop activation has succeeded.
C7_NothingServedBeforeRelayHop ==
    /\ responses # {} => relayActive
    /\ ~acceptedBeforeRelay

\* C8: the process never exits with a constructed host that was not closed.
C8_HostClosedOnExit ==
    (pc = "exited" /\ h.constructed) => h.closed

\* C9: once the host is constructed, every GET / succeeds with 200 "ok".
C9_LivenessAlwaysSucceeds ==
    /\ ~refusedAfterHost
    /\ \A r \in LivenessResponses : r.code = 200 /\ r.body = <<"ok">>

\* C9 as amended: every GET / that is answered gets 200 "ok"; while the status
\* listener is bound and the process runs no GET / is refused; a status
\* server that cannot listen leaves the process running, and from then on
\* the process answers no status query.
C9_LivenessWhileListening ==
    /\ [](\A r \in LivenessResponses : r.code = 200 /\ r.body = <<"ok">>)
    /\ [][(status = "serving" /\ pc # "exited" /\ run' = run)
             => refusedAfterHost' = refusedAfterHost]_vars
    /\ [][(status = "starting" /\ status' = "failed")
             => (pc' = pc /\ pc' # "exited")]_vars
    /\ [][(status = "failed" /\ run' = run)
             => (status' = "failed" /\ responses' = responses)]_vars

C9_Witness ==
    /\ port = statusPort
    /\ status = "failed"
    /\ pc = "select"
    /\ refusedAfterHost

\* C10: within a run the key, the NodeID and the public address text do not
\* change once the host is constructed, a status request changes nothing but
\* the request bookkeeping, and all answers to the same path are identical.
C10_ResponsesIdentical ==
    /\ [](\A r1, r2 \in responses : r1.path = r2.path => r1 = r2)
    /\ [][(h.constructed /\ run' = run)
             => /\ priv' = priv
                /\ h'.id = h.id
                /\ publicMaddrStr' = publicMaddrStr
                /\ env' = env]_vars
    /\ [][(responses' # responses /\ run' = run)
             => UNCHANGED <<env, file, pc, port, publicMaddrStr, priv, h,
                            relayActive, status, hook>>]_vars

C10_Witness ==
    /\ PeerIdResponses # {}
    /\ MultiaddrResponses # {}
    /\ inflight["/peerid"] = 1
    /\ inflight["/multiaddr"] = 1

====
